---- MODULE Spec2Model ----
(***************************************************************************)
(* Model of backend/index.js of the mail classifier: the /auth/callback    *)
(* and /tasks handlers over the in-memory token, the processEmails loop,  *)
(* extractInfoWithGemini, parseDeadline and categorizeTask.                *)
(*                                                                         *)
(* JavaScript strings are TLA+ strings handled character by character.    *)
(* A Date is a record [nan, d, t]: d is the day number since 1970-01-01   *)
(* and t the millisecond of that day; nan marks an Invalid Date.  The     *)
(* time zone is taken to be UTC and has no daylight-saving shifts.        *)
(***************************************************************************)
EXTENDS Integers, Sequences, FiniteSets, TLC

VARIABLES
    clock,          \* the wall clock: what new Date() returns
    ticks,          \* how often the clock was seen to advance between events
    tokenStorage,   \* index.js:30
    credentials,    \* the credentials set on oAuth2Client
    req,            \* the requests being handled, one record per handler
    fnIn,           \* the argument one of the three functions is applied to on its own
    fnOut           \* its result

vars == <<clock, ticks, tokenStorage, credentials, req, fnIn, fnOut>>

-----------------------------------------------------------------------------
(* Bounds *)

NumReq == 2          \* requests the server handles in one behaviour
MaxEmails == 2       \* messages the mailbox returns to one /tasks request
MaxClockSteps == 2   \* times the wall clock is seen to advance

-----------------------------------------------------------------------------
(* JavaScript strings *)

Min(S) == CHOOSE x \in S : \A y \in S : x <= y

\* F applied to the value of v, which is computed once
Let(v, F(_)) == CHOOSE r \in {F(x) : x \in {v}} : TRUE

\* String.prototype.indexOf, 1-based; 0 when pat does not occur in s
IndexOf(s, pat) ==
    LET I == {i \in 1..(Len(s) - Len(pat) + 1) : SubSeq(s, i, i + Len(pat) - 1) = pat}
    IN  IF I = {} THEN 0 ELSE Min(I)

Slice(s, from) == IF from > Len(s) THEN "" ELSE SubSeq(s, from, Len(s))

Prefix(s, n) == IF n <= 0 THEN "" ELSE IF n >= Len(s) THEN s ELSE SubSeq(s, 1, n)

CharAt(s, i) == SubSeq(s, i, i)

\* s.replace(pat, ''): pat is a string, so only its first occurrence goes
replace(s, pat) ==
    LET i == IndexOf(s, pat)
    IN  IF i = 0 THEN s ELSE Prefix(s, i - 1) \o Slice(s, i + Len(pat))

RECURSIVE split(_)
\* text.split('\n')
split(s) ==
    Let(IndexOf(s, "\n"), LAMBDA i :
        IF i = 0 THEN <<s>>
        ELSE <<Prefix(s, i - 1)>> \o Let(Slice(s, i + 1), LAMBDA rest : split(rest)))

\* lines.filter(Boolean): the empty string is the only falsy string
filterBoolean(lines) == SelectSeq(lines, LAMBDA l : l # "")

UpperChars == "ABCDEFGHIJKLMNOPQRSTUVWXYZ"
LowerChars == "abcdefghijklmnopqrstuvwxyz"

RECURSIVE toLowerCase(_)
toLowerCase(s) ==
    IF s = "" THEN ""
    ELSE LET c == CharAt(s, 1)
             i == IndexOf(UpperChars, c)
         IN  (IF i = 0 THEN c ELSE CharAt(LowerChars, i)) \o toLowerCase(Slice(s, 2))

IsSpace(c) == c \in {" ", "\t", "\r", "\n"}

RECURSIVE trimStart(_)
trimStart(s) == IF s # "" /\ IsSpace(CharAt(s, 1)) THEN trimStart(Slice(s, 2)) ELSE s

RECURSIVE trimEnd(_)
trimEnd(s) ==
    IF s # "" /\ IsSpace(CharAt(s, Len(s))) THEN trimEnd(Prefix(s, Len(s) - 1)) ELSE s

trim(s) == trimEnd(trimStart(s))

Digits == "0123456789"

IsDigit(c) == c # "" /\ IndexOf(Digits, c) # 0

DigitVal(c) == IndexOf(Digits, c) - 1

RECURSIVE DigitRun(_)
\* the longest run of digits s starts with: what \d+ takes
DigitRun(s) ==
    IF s # "" /\ IsDigit(CharAt(s, 1)) THEN CharAt(s, 1) \o DigitRun(Slice(s, 2)) ELSE ""

\* deadlineStr.match(/within (\d+) hours/): the captured digits of the
\* leftmost match, "" when there is none (the pattern is not anchored)
withinMatch(s) ==
    LET Hit(i) == /\ SubSeq(s, i, i + 6) = "within "
                  /\ LET run == DigitRun(Slice(s, i + 7))
                     IN  /\ run # ""
                         /\ Prefix(Slice(s, i + 7 + Len(run)), 6) = " hours"
        I == {i \in 1..(Len(s) - 6) : Hit(i)}
    IN  IF I = {} THEN "" ELSE DigitRun(Slice(s, Min(I) + 7))

-----------------------------------------------------------------------------
(* Dates *)

MS_PER_HOUR == 3600000
MS_PER_DAY == 86400000
END_OF_DAY == 86399000       \* 23:59:59.000
MAX_DATE_DAYS == 100000000   \* a Date holds at most 8.64e15 ms either side of the epoch

InvalidDate == [nan |-> TRUE, d |-> 0, t |-> 0]

Date(d, t) == [nan |-> FALSE, d |-> d, t |-> t]

\* the time value of a Date is a number only within the range of TimeClip
InRange(d, t) == \/ d < MAX_DATE_DAYS /\ d >= -MAX_DATE_DAYS
                 \/ d = MAX_DATE_DAYS /\ t = 0

\* an hour count as parseInt hands it to addHours: days whole days and
\* hours further hours.  A count beyond twice the range of Date is held at
\* that size, which no addition brings back into range.
HourCount(days, hours) == [days |-> days, hours |-> hours]

SaturatedDays == 2 * MAX_DATE_DAYS

RECURSIVE parseIntFrom(_, _)
parseIntFrom(s, acc) ==
    IF s = "" THEN acc
    ELSE LET h10 == acc.hours * 10 + DigitVal(CharAt(s, 1))
             days == acc.days * 10 + h10 \div 24
         IN  Let(HourCount(IF days > SaturatedDays THEN SaturatedDays ELSE days, h10 % 24),
                 LAMBDA next : parseIntFrom(Slice(s, 2), next))

\* parseInt(digits, 10) of a non-empty run of digits
parseInt(s) == parseIntFrom(s, HourCount(0, 0))

\* date-fns addHours: new Date(date.getTime() + amount * 3600000)
addHours(date, amount) ==
    LET t1 == date.t + amount.hours * MS_PER_HOUR
        d1 == date.d + amount.days + t1 \div MS_PER_DAY
        t2 == t1 % MS_PER_DAY
    IN  IF InRange(d1, t2) THEN Date(d1, t2) ELSE InvalidDate

\* date-fns addDays, on the few days the program adds to the current date
addDays(date, amount) == Date(date.d + amount, date.t)

\* new Date(y, m, d, 23, 59, 59) and parsed.setHours(23, 59, 59)
endOfDay(date) == Date(date.d, END_OF_DAY)

\* date-fns differenceInHours: the millisecond difference over 3600000,
\* rounded towards zero; NaN when a date is invalid
Hours(n) == [nan |-> FALSE, n |-> n]

NaNHours == [nan |-> TRUE, n |-> 0]

differenceInHours(left, right) ==
    IF left.nan \/ right.nan THEN NaNHours
    ELSE LET dm == left.t - right.t
             q == dm \div MS_PER_HOUR
             r == dm % MS_PER_HOUR
             h == (left.d - right.d) * 24 + q
         IN  Hours(IF h >= 0 \/ r = 0 THEN h ELSE h + 1)

\* hoursLeft <= n in JavaScript: false when hoursLeft is NaN
LessEq(hours, n) == ~hours.nan /\ hours.n <= n

\* date.toISOString(): throws a RangeError on an Invalid Date
toISOStringThrows(date) == date.nan

-----------------------------------------------------------------------------
(* date-fns parse and isValid under the five formats of parseDeadline *)

IsLeapYear(y) == (y % 4 = 0 /\ y % 100 # 0) \/ y % 400 = 0

DaysInMonth(y, m) ==
    IF m = 2 THEN (IF IsLeapYear(y) THEN 29 ELSE 28)
    ELSE IF m \in {4, 6, 9, 11} THEN 30 ELSE 31

\* the day number of the civil date y-m-d
DaysFromCivil(y, m, d) ==
    LET y1 == IF m <= 2 THEN y - 1 ELSE y
        era == y1 \div 400
        yoe == y1 - era * 400
        mp == IF m > 2 THEN m - 3 ELSE m + 9
        doy == (153 * mp + 2) \div 5 + d - 1
        doe == yoe * 365 + yoe \div 4 - yoe \div 100 + doy
    IN  era * 146097 + doe - 719468

RECURSIVE NumVal(_, _)
NumVal(s, acc) == IF s = "" THEN acc ELSE NumVal(Slice(s, 2), acc * 10 + DigitVal(CharAt(s, 1)))

MonthNames == <<"january", "february", "march", "april", "may", "june", "july",
                "august", "september", "october", "november", "december">>

FORMATS == <<"dd/MM/yyyy HH:mm", "dd/MM/yyyy", "yyyy-MM-dd", "MMMM d, yyyy", "dd MMM yyyy">>

\* the tokens date-fns splits each format into
FormatTokens(fmt) ==
    CASE fmt = "dd/MM/yyyy HH:mm" -> <<"dd", "/", "MM", "/", "yyyy", " ", "HH", ":", "mm">>
      [] fmt = "dd/MM/yyyy"       -> <<"dd", "/", "MM", "/", "yyyy">>
      [] fmt = "yyyy-MM-dd"       -> <<"yyyy", "-", "MM", "-", "dd">>
      [] fmt = "MMMM d, yyyy"     -> <<"MMMM", " ", "d", ", ", "yyyy">>
      [] fmt = "dd MMM yyyy"      -> <<"dd", " ", "MMM", " ", "yyyy">>

\* what is left of the text, and the fields read so far
ParseState(ok, rest, f) == [ok |-> ok, rest |-> rest, f |-> f]

NoFields == [yyyy |-> 0, MM |-> 0, dd |-> 0, HH |-> 0, mm |-> 0]

\* a numeric field of at most n digits at the head of the text
TakeNum(st, name, n) ==
    Let(Prefix(DigitRun(st.rest), n), LAMBDA run :
        IF run = "" THEN ParseState(FALSE, "", st.f)
        ELSE ParseState(TRUE, Slice(st.rest, Len(run) + 1),
                        [st.f EXCEPT ![name] = NumVal(run, 0)]))

\* a month name (MMMM) or its three-letter abbreviation (MMM)
TakeMonth(st, abbreviated) ==
    LET Name(m) == IF abbreviated THEN Prefix(MonthNames[m], 3) ELSE MonthNames[m]
    IN  Let({m \in 1..12 : Prefix(st.rest, Len(Name(m))) = Name(m)}, LAMBDA M :
            IF M = {} THEN ParseState(FALSE, "", st.f)
            ELSE ParseState(TRUE, Slice(st.rest, Len(Name(Min(M))) + 1),
                            [st.f EXCEPT !["MM"] = Min(M)]))

\* a literal of the format
TakeLit(st, lit) ==
    IF Prefix(st.rest, Len(lit)) = lit
    THEN ParseState(TRUE, Slice(st.rest, Len(lit) + 1), st.f)
    ELSE ParseState(FALSE, "", st.f)

Take(st, token) ==
    IF ~st.ok THEN st
    ELSE CASE token \in {"dd", "d"}  -> TakeNum(st, "dd", 2)
           [] token = "MM"          -> TakeNum(st, "MM", 2)
           [] token = "yyyy"        -> TakeNum(st, "yyyy", 4)
           [] token = "HH"          -> TakeNum(st, "HH", 2)
           [] token = "mm"          -> TakeNum(st, "mm", 2)
           [] token = "MMMM"        -> TakeMonth(st, FALSE)
           [] token = "MMM"         -> TakeMonth(st, TRUE)
           [] OTHER                 -> TakeLit(st, token)

RECURSIVE TakeAll(_, _, _)
TakeAll(st, tokens, k) ==
    IF k > Len(tokens) THEN st
    ELSE Let(Take(st, tokens[k]), LAMBDA next : TakeAll(next, tokens, k + 1))

\* parse(deadlineStr, fmt, now): the fields of fmt read left to right; an
\* Invalid Date when the text does not fit, is not used up, or a field is
\* out of its range
parse(s, fmt) ==
    Let(TakeAll(ParseState(TRUE, s, NoFields), FormatTokens(fmt), 1), LAMBDA st :
        IF /\ st.ok
           /\ trim(st.rest) = ""
           /\ st.f.MM \in 1..12
           /\ st.f.dd >= 1 /\ st.f.dd <= DaysInMonth(st.f.yyyy, st.f.MM)
           /\ st.f.HH \in 0..23 /\ st.f.mm \in 0..59
        THEN Date(DaysFromCivil(st.f.yyyy, st.f.MM, st.f.dd),
                  st.f.HH * MS_PER_HOUR + st.f.mm * 60000)
        ELSE InvalidDate)

isValid(date) == ~date.nan

-----------------------------------------------------------------------------
(* extractInfoWithGemini, index.js:164-209 *)

LABELS == <<"Event Type: ", "Subject: ", "Deadline: ", "Urgency: ", "Importance: ",
            "Score: ", "Registration Link: ", "Summary: ">>

\* field without the default for a line that is empty once stripped
fieldAsStripped(lines, i, default) ==
    IF i + 1 > Len(lines) THEN default
    ELSE replace(lines[i + 1], LABELS[i + 1])

\* lines[i]?.replace(label, '') || default, i counted from 0 as in the source
field(lines, i, default) ==
    IF i + 1 > Len(lines) THEN default
    ELSE LET v == replace(lines[i + 1], LABELS[i + 1])
         IN  IF v = "" THEN default ELSE v

\* the record of the try block, index.js:183-195
parsedRecord(text, subject) ==
    Let(filterBoolean(split(text)), LAMBDA lines :
        [eventType        |-> field(lines, 0, "Email"),
         subject          |-> field(lines, 1, subject),
         deadline         |-> field(lines, 2, "none"),
         urgency          |-> field(lines, 3, "low"),
         importance       |-> field(lines, 4, "low"),
         score            |-> field(lines, 5, "none"),
         registrationLink |-> field(lines, 6, "none"),
         summary          |-> field(lines, 7, "No summary.")])

\* the catch block handing back the summary default of the try block
fallbackRecordNoSummary(subject) ==
    [eventType        |-> "Email",
     subject          |-> subject,
     deadline         |-> "none",
     urgency          |-> "low",
     importance       |-> "low",
     score            |-> "none",
     registrationLink |-> "none",
     summary          |-> "No summary."]

\* the record of the catch block, index.js:198-207
fallbackRecord(subject) ==
    [eventType        |-> "Email",
     subject          |-> subject,
     deadline         |-> "none",
     urgency          |-> "low",
     importance       |-> "low",
     score            |-> "none",
     registrationLink |-> "none",
     summary          |-> "Could not extract information."]

\* what geminiModel.generateContent(prompt) followed by response.text() does:
\* it hands back a text or throws an error with a message
Failure(message) == [ok |-> FALSE, text |-> message]

Response(text) == [ok |-> TRUE, text |-> text]

\* the value extractInfoWithGemini resolves to, given how the call ended
extractInfoWithGemini(outcome, subject) ==
    IF outcome.ok THEN parsedRecord(outcome.text, subject) ELSE fallbackRecord(subject)

-----------------------------------------------------------------------------
(* parseDeadline, index.js:212-246; now is the new Date() of line 213 *)

RECURSIVE parseFormats(_, _, _)
\* the loop over formats, from the i-th on, and the return after it
parseFormats(s, i, now) ==
    IF i > Len(FORMATS) THEN addDays(now, 7)
    ELSE Let(parse(s, FORMATS[i]), LAMBDA parsed :
             IF isValid(parsed)
             THEN (IF IndexOf(FORMATS[i], "HH:mm") = 0 THEN endOfDay(parsed) ELSE parsed)
             ELSE parseFormats(s, i + 1, now))

parseDeadline(deadlineStr, now) ==
    Let(trim(toLowerCase(deadlineStr)), LAMBDA s :
        IF s = "today" THEN endOfDay(now)
        ELSE IF s = "tomorrow" THEN addDays(now, 1)
        ELSE IF s = "day after tomorrow" THEN addDays(now, 2)
        ELSE IF s = "none" THEN addDays(now, 7)
        ELSE Let(withinMatch(s), LAMBDA digits :
                 IF digits # "" THEN addHours(now, parseInt(digits))
                 ELSE parseFormats(s, 1, now)))

-----------------------------------------------------------------------------
(* categorizeTask, index.js:249-263; now is the new Date() of line 250 *)

Urgent == "Urgent"
Important == "Important"
Later == "Later"

\* categorizeTask with the first threshold taken strictly
categorizeTaskStrict(extracted, deadline, now) ==
    LET hoursLeft == differenceInHours(deadline, now)
        isUrgent == LessEq(hoursLeft, 23) \/ extracted.urgency = "high"
        isImportant == LessEq(hoursLeft, 72) \/ extracted.importance = "high"
    IN  IF isUrgent THEN Urgent
        ELSE IF isImportant THEN Important
        ELSE Later

categorizeTask(extracted, deadline, now) ==
    LET hoursLeft == differenceInHours(deadline, now)
        isUrgent == LessEq(hoursLeft, 24) \/ extracted.urgency = "high"
        isImportant == LessEq(hoursLeft, 72) \/ extracted.importance = "high"
    IN  IF isUrgent THEN Urgent
        ELSE IF isImportant THEN Important
        ELSE Later

-----------------------------------------------------------------------------
(* The server: index.js:29-161 *)

Null == "null"

\* the tokens an exchange of an authorization code can yield
Tokens == {"token1", "token2"}

\* 2025-06-14 10:00:00.000, the instant the server starts at
StartOfRun == Date(20253, 10 * MS_PER_HOUR)

\* how far the clock moves while a handler waits on the network
ClockSteps == {1, MS_PER_HOUR}

\* how far it moves between two new Date() of one run of the loop body
Drifts == {0, 1}

Advance(date, ms) == Date(date.d + (date.t + ms) \div MS_PER_DAY, (date.t + ms) % MS_PER_DAY)

\* the Subject header values of a fetched message; "" is a message without one
Subjects == {"", "Exam"}

Emails == [subject : Subjects]

Batches == UNION {[1..n -> Emails] : n \in 0..MaxEmails}

WellFormed(deadline, urgency, importance) ==
    "Event Type: Exam\nSubject: Finals\nDeadline: " \o deadline
    \o "\nUrgency: " \o urgency \o "\nImportance: " \o importance
    \o "\nScore: 7\nRegistration Link: none\nSummary: Register for the finals."

\* the response texts the generative model is taken to answer with
ResponseTexts ==
    { WellFormed("within 25 hours", "low", "low"),
      WellFormed("within 99999999999 hours", "low", "low"),
      WellFormed("tomorrow", "critical", "High"),
      "Event Type: Exam\n\nSubject: Finals\nDeadline: 20/06/2025\n" }

Outcomes == {Failure("fetch failed")} \cup {Response(t) : t \in ResponseTexts}

Idle == [kind |-> "none", pc |-> "idle", status |-> 0, fetched |-> FALSE,
         emails |-> <<>>, i |-> 0, calls |-> <<>>, inflight |-> 0,
         tasks |-> <<>>, log |-> <<>>]

Init ==
    /\ clock = StartOfRun
    /\ ticks = 0
    /\ tokenStorage = Null
    /\ credentials = Null
    /\ req = [r \in 1..NumReq |-> Idle]
    /\ fnIn = <<>>
    /\ fnOut = <<>>

Respond(r, kind, status) ==
    req' = [req EXCEPT ![r].kind = kind, ![r].pc = "done", ![r].status = status]

\* index.js:56-59: a callback without a code
CallbackWithoutCode(r) ==
    /\ req[r].pc = "idle"
    /\ Respond(r, "callback", 400)
    /\ UNCHANGED <<clock, ticks, tokenStorage, credentials, fnIn, fnOut>>

\* index.js:56-61: a callback with a code starts the exchange and waits
CallbackWithCode(r) ==
    /\ req[r].pc = "idle"
    /\ req' = [req EXCEPT ![r].kind = "callback", ![r].pc = "getToken"]
    /\ UNCHANGED <<clock, ticks, tokenStorage, credentials, fnIn, fnOut>>

\* index.js:61-64: the exchange succeeded
GetTokenResolves(r) ==
    /\ req[r].pc = "getToken"
    /\ \E tokens \in Tokens :
          /\ credentials' = tokens
          /\ tokenStorage' = tokens
    /\ Respond(r, "callback", 200)
    /\ UNCHANGED <<clock, ticks, fnIn, fnOut>>

\* index.js:65-68: the exchange failed
GetTokenRejects(r) ==
    /\ req[r].pc = "getToken"
    /\ Respond(r, "callback", 500)
    /\ UNCHANGED <<clock, ticks, tokenStorage, credentials, fnIn, fnOut>>

\* /tasks starting the fetch whatever the token is
TasksRequestUnchecked(r) ==
    /\ req[r].pc = "idle"
    /\ credentials' = tokenStorage
    /\ req' = [req EXCEPT ![r].kind = "tasks", ![r].pc = "fetch", ![r].fetched = TRUE]
    /\ UNCHANGED <<clock, ticks, tokenStorage, fnIn, fnOut>>

\* index.js:73-82: /tasks answers 401 without a token, else starts the fetch
TasksRequest(r) ==
    /\ req[r].pc = "idle"
    /\ IF tokenStorage = Null
       THEN /\ Respond(r, "tasks", 401)
            /\ UNCHANGED credentials
       ELSE /\ credentials' = tokenStorage
            /\ req' = [req EXCEPT ![r].kind = "tasks", ![r].pc = "fetch", ![r].fetched = TRUE]
    /\ UNCHANGED <<clock, ticks, tokenStorage, fnIn, fnOut>>

\* index.js:117-120 and 85-88: the mailbox fetch failed
FetchRejects(r) ==
    /\ req[r].pc = "fetch"
    /\ Respond(r, "tasks", 500)
    /\ UNCHANGED <<clock, ticks, tokenStorage, credentials, fnIn, fnOut>>

\* index.js:129: the Subject header, or 'No Subject'
subjectOf(email) == IF email.subject = "" THEN "No Subject" ELSE email.subject

\* index.js:83, 124-143: the fetch succeeded and processEmails runs up to its
\* first await (or to its end on an empty batch)
FetchResolves(r, batches) ==
    /\ req[r].pc = "fetch"
    /\ \E emails \in batches :
          IF emails = <<>>
          THEN req' = [req EXCEPT ![r].pc = "done", ![r].status = 200]
          ELSE req' = [req EXCEPT ![r].pc = "gemini", ![r].emails = emails, ![r].i = 1,
                                  ![r].calls = <<1>>, ![r].inflight = 1]
    /\ UNCHANGED <<clock, ticks, tokenStorage, credentials, fnIn, fnOut>>

\* index.js:147-157; deadline stands for the text toISOString gives for it
Task(extracted, deadline, priority) ==
    [eventType        |-> extracted.eventType,
     subject          |-> extracted.subject,
     deadline         |-> deadline,
     urgency          |-> extracted.urgency,
     importance       |-> extracted.importance,
     score            |-> extracted.score,
     priority         |-> priority,
     registrationLink |-> extracted.registrationLink,
     summary          |-> extracted.summary]

\* index.js:143-160, 84-88: the call for email i ended; the loop body runs on,
\* and then either the next call starts, or processEmails returns, or the
\* RangeError of toISOString leaves the loop and /tasks answers 500.
\* drift is what the clock moved between the new Date() of parseDeadline and
\* that of categorizeTask.  log keeps, for each email handled, what went into
\* and came out of the three calls.
GenerateContentSettles(r, outcomes, drifts) ==
    /\ req[r].pc = "gemini"
    /\ \E outcome \in outcomes, drift \in drifts :
       \E i \in {req[r].i} :
       \E subject \in {subjectOf(req[r].emails[i])} :
       \E extracted \in {extractInfoWithGemini(outcome, subject)} :
       \E parseNow \in {clock} :
       \E deadline \in {parseDeadline(extracted.deadline, parseNow)} :
       \E classifyNow \in {Advance(clock, drift)} :
       \E priority \in {categorizeTask(extracted, deadline, classifyNow)} :
       \E entry \in {[email |-> i, outcome |-> outcome, subject |-> subject,
                      extracted |-> extracted, deadline |-> deadline,
                      parseNow |-> parseNow, classifyNow |-> classifyNow,
                      priority |-> priority]} :
       \E tasks \in {Append(req[r].tasks, Task(extracted, deadline, priority))} :
          /\ clock' = classifyNow
          /\ IF toISOStringThrows(deadline)
             THEN req' = [req EXCEPT ![r].pc = "done", ![r].status = 500,
                                     ![r].inflight = 0,
                                     ![r].log = Append(@, entry)]
             ELSE IF i < Len(req[r].emails)
             THEN req' = [req EXCEPT ![r].i = i + 1, ![r].calls = Append(@, i + 1),
                                     ![r].tasks = tasks,
                                     ![r].log = Append(@, entry)]
             ELSE req' = [req EXCEPT ![r].pc = "done", ![r].status = 200,
                                     ![r].inflight = 0, ![r].tasks = tasks,
                                     ![r].log = Append(@, entry)]
    /\ UNCHANGED <<ticks, tokenStorage, credentials, fnIn, fnOut>>

\* time passes while the handlers wait
Tick ==
    /\ ticks < MaxClockSteps
    /\ \E ms \in ClockSteps : clock' = Advance(clock, ms)
    /\ ticks' = ticks + 1
    /\ UNCHANGED <<tokenStorage, credentials, req, fnIn, fnOut>>

Next ==
    \/ \E r \in 1..NumReq : CallbackWithoutCode(r)
    \/ \E r \in 1..NumReq : CallbackWithCode(r)
    \/ \E r \in 1..NumReq : GetTokenResolves(r)
    \/ \E r \in 1..NumReq : GetTokenRejects(r)
    \/ \E r \in 1..NumReq : TasksRequest(r)
    \/ \E r \in 1..NumReq : FetchRejects(r)
    \/ \E r \in 1..NumReq : FetchResolves(r, Batches)
    \/ \E r \in 1..NumReq : GenerateContentSettles(r, Outcomes, Drifts)
    \/ Tick

Spec == Init /\ [][Next]_vars

\* The same server against a mailbox of messages that all carry a subject and
\* a model that fails or answers in the requested shape, with the clock at
\* rest: what the requests do to the token does not depend on those.
PlainBatches == UNION {[1..n -> {[subject |-> "Exam"]}] : n \in 0..MaxEmails}

PlainOutcomes ==
    {Failure("fetch failed"), Response(WellFormed("within 25 hours", "low", "low")),
     Response(WellFormed("within 99999999999 hours", "low", "low"))}

NextAuth ==
    \/ \E r \in 1..NumReq : CallbackWithoutCode(r)
    \/ \E r \in 1..NumReq : CallbackWithCode(r)
    \/ \E r \in 1..NumReq : GetTokenResolves(r)
    \/ \E r \in 1..NumReq : GetTokenRejects(r)
    \/ \E r \in 1..NumReq : TasksRequest(r)
    \/ \E r \in 1..NumReq : FetchRejects(r)
    \/ \E r \in 1..NumReq : FetchResolves(r, PlainBatches)
    \/ \E r \in 1..NumReq : GenerateContentSettles(r, PlainOutcomes, {0})

SpecAuth == Init /\ [][NextAuth]_vars

-----------------------------------------------------------------------------
(* The three functions on their own: Init draws an argument, the one action  *)
(* applies the function to it.                                               *)

AtRest ==
    /\ clock = StartOfRun
    /\ ticks = 0
    /\ tokenStorage = Null
    /\ credentials = Null
    /\ req = [r \in 1..NumReq |-> Idle]
    /\ fnOut = <<>>

Hints == {"high", "medium", "low"}

\* deadlines around the thresholds, a millisecond either side of the hour
ClassifyOffsets ==
    {h * MS_PER_HOUR + e : h \in {-30, -1, 0, 1, 23, 24, 25, 48, 71, 72, 73, 200},
                           e \in {-1, 0, 1}}

\* 10:00:00.000 and 23:59:59.999
Nows == {StartOfRun, Date(20253, MS_PER_DAY - 1)}

InitClassify ==
    /\ AtRest
    /\ fnIn \in [offset : ClassifyOffsets, now : Nows, urgency : Hints, importance : Hints]

Classify ==
    /\ fnOut = <<>>
    /\ fnOut' = <<categorizeTask([urgency |-> fnIn.urgency, importance |-> fnIn.importance],
                                 Advance(fnIn.now, fnIn.offset), fnIn.now)>>
    /\ UNCHANGED <<clock, ticks, tokenStorage, credentials, req, fnIn>>

SpecClassify == InitClassify /\ [][Classify]_vars

DeadlineTexts ==
    { "today", "Today", " TODAY ", "tomorrow", "Tomorrow", "day after tomorrow",
      "Day After Tomorrow", "none", "None", "", " ", "soon", "asap", "next week",
      "end of month", "tonight", "today.", "by tomorrow", "n/a", "unknown",
      "within 0 hours", "within 5 hours", "within 24 hours", "within 25 hours",
      "Within 48 Hours", "within 72 hours", "within 73 hours", "within 200 hours",
      "due within 72 hours!", "within hours", "within 5 hour", "within five hours",
      "within 2399000000 hours", "within 2400000000 hours", "within 99999999999 hours",
      "20/06/2025", "20/06/2025 10:30", "2025-06-20", "June 20, 2025", "20 Jun 2025",
      "1/7/2025", "31/02/2025", "29/02/2024", "29/02/2025", "2025-13-01",
      "20/06/2025 25:00", "20/06/2025 10:61", "june 31, 2025", "20 june 2025",
      "20-06-2025", "2025/06/20", "20/06/2025 at noon", "Jun 20, 2025", "20.06.2025" }

InitNormalize ==
    /\ AtRest
    /\ fnIn \in [text : DeadlineTexts, now : Nows]

Normalize ==
    /\ fnOut = <<>>
    /\ fnOut' = <<parseDeadline(fnIn.text, fnIn.now)>>
    /\ UNCHANGED <<clock, ticks, tokenStorage, credentials, req, fnIn>>

SpecNormalize == InitNormalize /\ [][Normalize]_vars

\* the lines a response can hold in place i: the label with a value, the bare
\* label, and in some places a line that carries the label further in, or
\* none at all
LineChoices(i) ==
    CASE i = 1 -> {"Event Type: Exam", "Event Type: ", "The Event Type: Exam"}
      [] i = 2 -> {"Subject: Finals", "Subject: "}
      [] i = 3 -> {"Deadline: tomorrow", "Deadline: "}
      [] i = 4 -> {"Urgency: high", "URGENT"}
      [] i = 5 -> {"Importance: low", "Importance: "}
      [] i = 6 -> {"Score: 7", "Score: "}
      [] i = 7 -> {"Registration Link: http://x", "Registration Link: "}
      [] i = 8 -> {"Summary: Register.", "Summary: "}

RECURSIVE LineSeqs(_)
\* the sequences of k lines, one of the choices in each place
LineSeqs(k) ==
    IF k = 0 THEN {<<>>}
    ELSE {Append(p, l) : p \in LineSeqs(k - 1), l \in LineChoices(k)}

RECURSIVE Join(_, _)
Join(lines, sep) ==
    IF lines = <<>> THEN ""
    ELSE IF Len(lines) = 1 THEN lines[1]
    ELSE lines[1] \o sep \o Join(Tail(lines), sep)

\* the subject processEmails passes: a header value or 'No Subject'
SubjectArgs == {subjectOf(e) : e \in Emails}

\* lines is kept beside the text made of it, for the properties to refer to
ExtractInputs ==
    {[outcome |-> Response(Join(ls, sep) \o end), subject |-> sub, lines |-> ls] :
        ls \in UNION {LineSeqs(k) : k \in 0..8}, sep \in {"\n", "\n\n"},
        end \in {"", "\n"}, sub \in SubjectArgs}
    \cup
    {[outcome |-> Failure(msg), subject |-> sub, lines |-> <<>>] :
        msg \in {"fetch failed", "response was blocked"}, sub \in SubjectArgs}

InitExtract ==
    /\ AtRest
    /\ fnIn \in ExtractInputs

Extract ==
    /\ fnOut = <<>>
    /\ fnOut' = <<extractInfoWithGemini(fnIn.outcome, fnIn.subject)>>
    /\ UNCHANGED <<clock, ticks, tokenStorage, credentials, req, fnIn>>

SpecExtract == InitExtract /\ [][Extract]_vars

-----------------------------------------------------------------------------
(* Properties *)

\* the whole hours in ms milliseconds, rounded towards zero
WholeHours(ms) == IF ms >= 0 THEN ms \div MS_PER_HOUR ELSE -((-ms) \div MS_PER_HOUR)

\* C1: with hoursLeft the whole hours from the reference to the deadline,
\* categorizeTask returns Urgent when hoursLeft <= 24 or the urgency hint is
\* high, else Important when hoursLeft <= 72 or the importance hint is high,
\* else Later; an input that meets both conditions is labelled Urgent.
C1_Classification ==
    fnOut # <<>> =>
        LET hoursLeft == WholeHours(fnIn.offset)
        IN  fnOut[1] = IF hoursLeft <= 24 \/ fnIn.urgency = "high" THEN "Urgent"
                       ELSE IF hoursLeft <= 72 \/ fnIn.importance = "high" THEN "Important"
                       ELSE "Later"

\* a deadline exactly 24 hours off with low urgency and high importance was
\* labelled Urgent
C1_Witness ==
    /\ fnOut = <<"Urgent">>
    /\ fnIn.offset = 24 * MS_PER_HOUR
    /\ fnIn.urgency = "low"
    /\ fnIn.importance = "high"

\* C3: when the call to the generative model fails, extractInfoWithGemini
\* returns the fallback record: 'Email', the subject passed in, 'none', 'low',
\* 'low', 'none', 'none', 'Could not extract information.'.
C3_Fallback ==
    (fnOut # <<>> /\ ~fnIn.outcome.ok) =>
        fnOut[1] = [eventType        |-> "Email",
                    subject          |-> fnIn.subject,
                    deadline         |-> "none",
                    urgency          |-> "low",
                    importance       |-> "low",
                    score            |-> "none",
                    registrationLink |-> "none",
                    summary          |-> "Could not extract information."]

\* a failed call for an email with a Subject header ended in a record
C3_Witness ==
    /\ fnOut # <<>>
    /\ ~fnIn.outcome.ok
    /\ fnIn.subject = "Exam"
    /\ fnOut[1].subject = "Exam"

FieldsOf(record) ==
    <<record.eventType, record.subject, record.deadline, record.urgency,
      record.importance, record.score, record.registrationLink, record.summary>>

FallbackDefaults(subject) ==
    <<"Email", subject, "none", "low", "low", "none", "none", "Could not extract information.">>

ParseDefaults(subject) ==
    <<"Email", subject, "none", "low", "low", "none", "none", "No summary.">>

\* line with label taken off its front, when it starts with it
PrefixStripped(line, label) ==
    IF Len(line) >= Len(label) /\ SubSeq(line, 1, Len(label)) = label
    THEN Slice(line, Len(label) + 1)
    ELSE line

\* C4 as stated: of a response of k <= 8 non-empty lines, field i is line i
\* with its label prefix stripped, and a field whose line is absent or empty
\* once stripped holds that field's value of the fallback record; no field
\* is empty.
C4_FallbackDefaults ==
    (fnOut # <<>> /\ fnIn.outcome.ok) =>
        \A i \in 1..8 :
            /\ FieldsOf(fnOut[1])[i] # ""
            /\ FieldsOf(fnOut[1])[i] =
                  IF i <= Len(fnIn.lines) /\ PrefixStripped(fnIn.lines[i], LABELS[i]) # ""
                  THEN PrefixStripped(fnIn.lines[i], LABELS[i])
                  ELSE FallbackDefaults(fnIn.subject)[i]

LabelAt(line, label, i) ==
    /\ i + Len(label) - 1 <= Len(line)
    /\ SubSeq(line, i, i + Len(label) - 1) = label

\* v is line without the first occurrence of label, or line when it has none
IsStripped(line, label, v) ==
    \/ /\ \A i \in 1..Len(line) : ~LabelAt(line, label, i)
       /\ v = line
    \/ \E i \in 1..Len(line) :
          /\ LabelAt(line, label, i)
          /\ \A j \in 1..(i - 1) : ~LabelAt(line, label, j)
          /\ v = Prefix(line, i - 1) \o Slice(line, i + Len(label))

\* C4 amended: field i is line i without the first occurrence of its label,
\* and a field whose line is absent or empty once stripped holds the default
\* of the parsing path, which for the summary is 'No summary.'; no field is
\* empty.
C4_ParseDefaults ==
    (fnOut # <<>> /\ fnIn.outcome.ok) =>
        \A i \in 1..8 :
            /\ FieldsOf(fnOut[1])[i] # ""
            /\ IF i <= Len(fnIn.lines) /\ ~IsStripped(fnIn.lines[i], LABELS[i], "")
               THEN IsStripped(fnIn.lines[i], LABELS[i], FieldsOf(fnOut[1])[i])
               ELSE FieldsOf(fnOut[1])[i] = ParseDefaults(fnIn.subject)[i]

\* a response of three lines, the second a bare label, gave a full record
C4_Witness ==
    /\ fnOut # <<>>
    /\ fnIn.outcome.ok
    /\ fnIn.lines = <<"The Event Type: Exam", "Subject: ", "Deadline: tomorrow">>
    /\ fnOut[1].eventType = "The Exam"
    /\ fnOut[1].subject = fnIn.subject
    /\ fnOut[1].summary = "No summary."

\* C2: whatever the model answered for an email, the email handled gave a
\* Task, and no batch was given up: /tasks answers 500 only when the mailbox
\* fetch failed.
C2_NeverRaises ==
    \A r \in 1..NumReq :
        /\ Len(req[r].tasks) = Len(req[r].log)
        /\ req[r].status = 500 /\ req[r].kind = "tasks" => req[r].log = <<>>

\* the deadline text no recognised phrase, pattern or format fits
Unrecognised(text) ==
    LET s == trim(toLowerCase(text))
    IN  /\ s \notin {"today", "tomorrow", "day after tomorrow", "none"}
        /\ withinMatch(s) = ""
        /\ \A k \in 1..Len(FORMATS) : ~isValid(parse(s, FORMATS[k]))

\* C5: parseDeadline returns a timestamp for every text, and for a text that
\* is 'none' or fits nothing it returns the reference plus 7 days.
C5_Total ==
    fnOut # <<>> =>
        /\ ~fnOut[1].nan
        /\ Unrecognised(fnIn.text) \/ trim(toLowerCase(fnIn.text)) = "none"
              => fnOut[1] = Date(fnIn.now.d + 7, fnIn.now.t)

\* C6: a /tasks request that got a batch of n emails hands back n Tasks, the
\* i-th assembled from the i-th email.
C6_OneTaskPerEmail ==
    \A r \in 1..NumReq :
        req[r].kind = "tasks" /\ req[r].pc = "done" =>
            /\ Len(req[r].tasks) = Len(req[r].emails)
            /\ \A i \in 1..Len(req[r].tasks) :
                  /\ req[r].log[i].email = i
                  /\ req[r].log[i].subject = subjectOf(req[r].emails[i])
                  /\ req[r].tasks[i].subject = req[r].log[i].extracted.subject
                  /\ req[r].tasks[i].priority = req[r].log[i].priority

\* C7: within a run every email is normalised and classified against one and
\* the same instant, so 'within 25 hours' with low hints has 25 hours left
\* and is never Urgent.
C7_OneReference ==
    \A r \in 1..NumReq : \A k \in 1..Len(req[r].log) :
        LET e == req[r].log[k]
        IN  /\ e.parseNow = e.classifyNow
            /\ e.parseNow = req[r].log[1].parseNow
            /\ (e.extracted.deadline = "within 25 hours"
                /\ e.extracted.urgency = "low" /\ e.extracted.importance = "low")
                  => e.priority # "Urgent"

\* C8: the urgency and the importance of every extracted record and of every
\* Task are one of high, medium and low.
C8_HintValues ==
    \A r \in 1..NumReq :
        /\ \A k \in 1..Len(req[r].log) :
              /\ req[r].log[k].extracted.urgency \in {"high", "medium", "low"}
              /\ req[r].log[k].extracted.importance \in {"high", "medium", "low"}
        /\ \A k \in 1..Len(req[r].tasks) :
              /\ req[r].tasks[k].urgency \in {"high", "medium", "low"}
              /\ req[r].tasks[k].importance \in {"high", "medium", "low"}

\* C9: the calls of a run are call(e1), ..., call(en), one per email and in
\* order, each started once the one before has ended, so that at most one is
\* in flight.
C9_CallSequence ==
    \A r \in 1..NumReq :
        /\ req[r].inflight <= 1
        /\ req[r].calls = [k \in 1..Len(req[r].calls) |-> k]
        /\ req[r].pc = "gemini" =>
              Len(req[r].calls) = req[r].i /\ Len(req[r].log) = req[r].i - 1
        /\ req[r].pc = "done" => Len(req[r].calls) = Len(req[r].emails)

C10_TokenInv ==
    /\ tokenStorage # Null =>
          \E r \in 1..NumReq : req[r].kind = "callback" /\ req[r].status = 200
    /\ \A r \in 1..NumReq :
          req[r].status = 401 =>
              /\ req[r].kind = "tasks"
              /\ ~req[r].fetched
              /\ req[r].calls = <<>>
              /\ req[r].log = <<>>

C10_TokenStep ==
    /\ tokenStorage # Null => tokenStorage' # Null
    /\ tokenStorage' # tokenStorage =>
          \E r \in 1..NumReq :
              req[r].pc = "getToken" /\ req'[r].pc = "done" /\ req'[r].status = 200
    /\ \A r \in 1..NumReq :
          (req[r].pc # "done" /\ req'[r].kind = "callback" /\ req'[r].status \in {400, 500})
              => tokenStorage' = tokenStorage
    /\ \A r \in 1..NumReq :
          (req[r].pc = "idle" /\ req'[r].kind = "tasks" /\ tokenStorage = Null)
              => /\ req'[r].pc = "done"
                 /\ req'[r].status = 401
                 /\ ~req'[r].fetched

\* C10: the token is null at first, becomes non-null only when a callback
\* with a code completes its exchange, is left alone by a callback without a
\* code or with a failed exchange, and is never null again; a /tasks request
\* handled while it is null answers 401 without a mailbox fetch or a call to
\* the generative model.
C10_Token == []C10_TokenInv /\ [][C10_TokenStep]_vars

\* a /tasks request was turned away, and a callback stored a token after it
C10_Witness ==
    /\ tokenStorage # Null
    /\ \E r \in 1..NumReq : req[r].kind = "tasks" /\ req[r].status = 401
    /\ \E r \in 1..NumReq : req[r].kind = "callback" /\ req[r].status = 200

====
